---- MODULE Spec2Model ----
(***************************************************************************)
(* A model of the abbreviating RDF/XML formatter                           *)
(* (xml/src/abbrev_formatter.rs).  Strings are sequences of one-character  *)
(* strings, the sink is the sequence of quick_xml events handed to the     *)
(* writer, and every public operation of the formatter is one action.      *)
(* The writer is an in-memory sink that accepts every event: the only      *)
(* error a call can return is the one write_close creates.                 *)
(***************************************************************************)
EXTENDS Integers, Sequences, FiniteSets, TLC

\* ------------------------------------------------------------------------
\* Bounds of the model
\* ------------------------------------------------------------------------

\* number of format calls made on one formatter
MaxTriples == 3

\* ------------------------------------------------------------------------
\* String constants of the source
\* ------------------------------------------------------------------------

RDF_NS ==
  <<"h", "t", "t", "p", ":", "/", "/", "w", "w", "w", ".", "w", "3", ".",
    "o", "r", "g", "/", "1", "9", "9", "9", "/", "0", "2", "/", "2", "2",
    "-", "r", "d", "f", "-", "s", "y", "n", "t", "a", "x", "-", "n", "s",
    "#">>

RDF_PREFIX == <<"r", "d", "f">>

RDF_TYPE == RDF_NS \o <<"t", "y", "p", "e">>

RDF_RDF == <<"r", "d", "f", ":", "R", "D", "F">>

RDF_DESCRIPTION ==
  <<"r", "d", "f", ":", "D", "e", "s", "c", "r", "i", "p", "t", "i", "o", "n">>

RDF_ABOUT == <<"r", "d", "f", ":", "a", "b", "o", "u", "t">>

RDF_NODEID == <<"r", "d", "f", ":", "n", "o", "d", "e", "I", "D">>

RDF_RESOURCE == <<"r", "d", "f", ":", "r", "e", "s", "o", "u", "r", "c", "e">>

XML_LANG == <<"x", "m", "l", ":", "l", "a", "n", "g">>

RDF_DATATYPE == <<"r", "d", "f", ":", "d", "a", "t", "a", "t", "y", "p", "e">>

XMLNS == <<"x", "m", "l", "n", "s">>

\* ------------------------------------------------------------------------
\* Inputs: the terms and triples handed to the formatter
\* ------------------------------------------------------------------------

\* A namespace and the prefix a configuration binds it to
EX_NS == <<"s", ":", "/">>

EX_PREFIX == <<"s">>

EX_PERSON == EX_NS \o <<"P", "e", "r", "s", "o", "n">>

EX_NAME == EX_NS \o <<"n", "a", "m", "e">>

EX_FOO == <<"e", "x", ":", "f", "o", "o">>

BNODE_ID == <<"b", "0">>

\* AsRefNamedNode / AsRefBlankNode / AsRefLiteral as tagged records; iri
\* holds the iri of a named node, the id of a blank node or the value of a
\* literal, extra the language of a language tagged string or the datatype
\* iri of a typed literal.
NamedNode(iri) == [kind |-> "NamedNode", iri |-> iri, extra |-> <<>>]

BlankNode(id) == [kind |-> "BlankNode", iri |-> id, extra |-> <<>>]

SimpleLiteral(value) == [kind |-> "Simple", iri |-> value, extra |-> <<>>]

LanguageTaggedString(value, language) ==
  [kind |-> "LanguageTaggedString", iri |-> value, extra |-> language]

TypedLiteral(value, datatype) ==
  [kind |-> "Typed", iri |-> value, extra |-> datatype]

IsLiteral(term) == term.kind \in {"Simple", "LanguageTaggedString", "Typed"}

Subjects == {NamedNode(EX_FOO), BlankNode(BNODE_ID)}

Predicates == {NamedNode(RDF_TYPE), NamedNode(EX_NAME)}

XSD_STRING == <<"x", "s", "d", ":", "s", "t", "r", "i", "n", "g">>

Objects ==
  {NamedNode(EX_PERSON), BlankNode(BNODE_ID),
   SimpleLiteral(<<"F", "o", "o">>),
   LanguageTaggedString(<<"F", "o", "o">>, <<"e", "n">>),
   TypedLiteral(<<"F", "o", "o">>, XSD_STRING)}

\* AsRefTriple.  The literals with a language or a datatype are given to
\* the property predicate only: format looks at the object of a type triple
\* only to see whether it is a named node.
Triples ==
  {t \in [subject : Subjects, predicate : Predicates, object : Objects] :
     t.object.kind \in {"LanguageTaggedString", "Typed"} =>
       t.predicate.iri # RDF_TYPE}

\* The prefix tables (namespace -> prefix) a caller may put in the
\* configuration: none, one for the namespace s:/, and one that binds
\* the RDF namespace to another prefix.
Configs ==
  { <<>>,
    EX_NS :> EX_PREFIX,
    RDF_NS :> <<"x">> }

\* ------------------------------------------------------------------------
\* State
\* ------------------------------------------------------------------------

VARIABLES
  writer,            \* the events written to the quick_xml writer, in order
  config_prefix,     \* config.prefix: namespace -> prefix
  current_subject,   \* Vec of subjects, one pushed per formatted triple
  current_close,     \* Vec of the names still to be closed
  maybe_empty_open,  \* Option<BytesStart>: <<>> is None, <<bs>> is Some(bs)
  decided,           \* history: every BytesStart given to write_start, with
                     \* the length of the writer's output at that moment
  calls,             \* history: the triples passed to format, with the result
  result,            \* result of the last call: "none", "ok" or "err"
  finished           \* finish has consumed the formatter

vars ==
  <<writer, config_prefix, current_subject, current_close, maybe_empty_open,
    decided, calls, result, finished>>

\* A call of split_iri on its own
VARIABLES
  split_arg,         \* the iri given to split_iri
  split_ret          \* <<>> before the call, <<<<namespace, local>>>> after

split_vars == <<split_arg, split_ret>>

\* No call of split_iri on its own is made
NoSplit ==
  /\ split_arg = <<>>
  /\ split_ret = <<>>

\* A parser of N-Triples
VARIABLES
  input,                  \* the bytes of the document
  read_pos,               \* read: the position of the current byte
  subject_buf,            \* NTriplesParser.subject_buf
  predicate_buf,          \* NTriplesParser.predicate_buf
  object_buf,             \* NTriplesParser.object_buf
  object_annotation_buf,  \* NTriplesParser.object_annotation_buf
  delivered,              \* history: the triples given to on_triple
  parse_result,           \* result of the last parse_step: "none", "ok", "err"
  parse_all               \* the call of parse_all: "none", "running", "ok", "err"

parser_vars ==
  <<input, read_pos, subject_buf, predicate_buf, object_buf,
    object_annotation_buf, delivered, parse_result, parse_all>>

\* No parser is constructed
NoParser ==
  /\ input = <<>>
  /\ read_pos = 1
  /\ subject_buf = <<>>
  /\ predicate_buf = <<>>
  /\ object_buf = <<>>
  /\ object_annotation_buf = <<>>
  /\ delivered = <<>>
  /\ parse_result = "none"
  /\ parse_all = "none"

\* ------------------------------------------------------------------------
\* quick_xml events
\* ------------------------------------------------------------------------

BytesStart(name, attrs) == [name |-> name, attrs |-> attrs]

push_attribute(bs, key, value) ==
  [bs EXCEPT !.attrs = Append(@, <<key, value>>)]

EventDecl ==
  [type |-> "Decl", name |-> <<>>, attrs |-> <<>>, text |-> <<>>]

EventStart(bs) ==
  [type |-> "Start", name |-> bs.name, attrs |-> bs.attrs, text |-> <<>>]

EventEmpty(bs) ==
  [type |-> "Empty", name |-> bs.name, attrs |-> bs.attrs, text |-> <<>>]

EventEnd(name) ==
  [type |-> "End", name |-> name, attrs |-> <<>>, text |-> <<>>]

EventText(text) ==
  [type |-> "Text", name |-> <<>>, attrs |-> <<>>, text |-> text]

\* ------------------------------------------------------------------------
\* Helpers on sequences
\* ------------------------------------------------------------------------

Last(s) == s[Len(s)]

Front(s) == SubSeq(s, 1, Len(s) - 1)

\* The orders in which a HashMap with the keys ks may be iterated
Orders(ks) ==
  {o \in [1 .. Cardinality(ks) -> ks] :
     \A i, j \in 1 .. Cardinality(ks) : i # j => o[i] # o[j]}

\* ------------------------------------------------------------------------
\* Namespace abbreviation
\* ------------------------------------------------------------------------

Letters ==
  {"a", "b", "c", "d", "e", "f", "g", "h", "i", "j", "k", "l", "m",
   "n", "o", "p", "q", "r", "s", "t", "u", "v", "w", "x", "y", "z",
   "A", "B", "C", "D", "E", "F", "G", "H", "I", "J", "K", "L", "M",
   "N", "O", "P", "Q", "R", "S", "T", "U", "V", "W", "X", "Y", "Z"}

Digits == {"0", "1", "2", "3", "4", "5", "6", "7", "8", "9"}

\* XML NameStartChar and NameChar, on the ASCII characters
is_name_start_char(c) == c \in Letters \cup {":", "_"}

is_name_char(c) == is_name_start_char(c) \/ c \in Digits \cup {"-", "."}

\* split_iri that cuts right after the last character that is no name
\* character or is a colon, without looking for a name start character
split_iri_AfterBase(iri) ==
  LET bases == {i \in 1 .. Len(iri) : ~is_name_char(iri[i]) \/ iri[i] = ":"}
  IN  IF bases = {}
      THEN <<iri, <<>>>>
      ELSE LET position_base == CHOOSE i \in bases : \A k \in bases : k <= i
           IN  <<SubSeq(iri, 1, position_base),
                 SubSeq(iri, position_base + 1, Len(iri))>>

\* split_iri: <<namespace, local>>
split_iri(iri) ==
  LET bases == {i \in 1 .. Len(iri) : ~is_name_char(iri[i]) \/ iri[i] = ":"}
  IN  IF bases = {}
      THEN <<iri, <<>>>>
      ELSE LET position_base == CHOOSE i \in bases : \A k \in bases : k <= i
               adds == {j \in position_base .. Len(iri) :
                          is_name_start_char(iri[j]) /\ iri[j] # ":"}
           IN  IF adds = {}
               THEN <<iri, <<>>>>
               ELSE LET at == CHOOSE j \in adds : \A k \in adds : j <= k
                    IN  <<SubSeq(iri, 1, at - 1), SubSeq(iri, at, Len(iri))>>

\* bytes_for_iri: the BytesStart that names an element after an iri
bytes_for_iri(prefix, iri) ==
  LET iri_prefix == split_iri(iri)[1]
      iri_value == split_iri(iri)[2]
  IN  IF iri_prefix \in DOMAIN prefix
      THEN BytesStart(prefix[iri_prefix] \o <<":">> \o iri_value, <<>>)
      ELSE push_attribute(BytesStart(iri_value, <<>>), XMLNS, iri_prefix)

\* ------------------------------------------------------------------------
\* The formatter.  Its methods are operators from the formatter's fields
\* (a record self) to the fields after the call; err is set when the call
\* returns the io::Error of write_close.
\* ------------------------------------------------------------------------

Self ==
  [writer |-> writer,
   current_subject |-> current_subject,
   current_close |-> current_close,
   maybe_empty_open |-> maybe_empty_open,
   decided |-> decided,
   err |-> FALSE]

\* write_event: a pending open is written as a Start before the event
write_event(self, event) ==
  LET flushed ==
        IF self.maybe_empty_open # <<>>
        THEN [self EXCEPT
                !.writer = Append(@, EventStart(self.maybe_empty_open[1])),
                !.maybe_empty_open = <<>>]
        ELSE self
  IN  [flushed EXCEPT !.writer = Append(@, event)]

\* write_start: the open is held back, its name goes on the close stack
write_start(self, bs) ==
  [self EXCEPT
     !.current_close = Append(@, bs.name),
     !.maybe_empty_open = <<bs>>,
     !.decided = Append(@, [open |-> bs, at |-> Len(self.writer)])]

\* write_close without the collapse of a pending open: the pending open
\* is written as a Start, followed by the End
write_close_NoCollapse(self) ==
  IF self.current_close = <<>>
  THEN [self EXCEPT !.err = TRUE]
  ELSE write_event([self EXCEPT !.current_close = Front(@)],
                   EventEnd(Last(self.current_close)))

\* write_close that takes an empty name from an empty close stack instead of
\* returning the error
write_close_NoError(self) ==
  IF self.current_close = <<>>
  THEN write_event(self, EventEnd(<<>>))
  ELSE LET close == Last(self.current_close)
           popped == [self EXCEPT !.current_close = Front(@)]
       IN  IF popped.maybe_empty_open # <<>>
           THEN write_event([popped EXCEPT !.maybe_empty_open = <<>>],
                            EventEmpty(popped.maybe_empty_open[1]))
           ELSE write_event(popped, EventEnd(close))

\* write_close: pop a name; a pending open becomes an Empty event
write_close(self) ==
  IF self.current_close = <<>>
  THEN [self EXCEPT !.err = TRUE]
  ELSE LET close == Last(self.current_close)
           popped == [self EXCEPT !.current_close = Front(@)]
       IN  IF popped.maybe_empty_open # <<>>
           THEN write_event([popped EXCEPT !.maybe_empty_open = <<>>],
                            EventEmpty(popped.maybe_empty_open[1]))
           ELSE write_event(popped, EventEnd(close))

\* The rdf:about / rdf:nodeID attribute that identifies a subject
subject_attribute(bs, subject) ==
  IF subject.kind = "NamedNode"
  THEN push_attribute(bs, RDF_ABOUT, subject.iri)
  ELSE push_attribute(bs, RDF_NODEID, subject.iri)

\* The open of the rdf:Description wrapper of a subject
description_open(triple) ==
  subject_attribute(BytesStart(RDF_DESCRIPTION, <<>>), triple.subject)

\* The open of the element named after the type of a subject
typed_open(prefix, triple) ==
  subject_attribute(bytes_for_iri(prefix, triple.object.iri), triple.subject)

\* The property element of a triple, decorated for its object
property_open(prefix, triple) ==
  LET open == bytes_for_iri(prefix, triple.predicate.iri)
      object == triple.object
  IN  CASE object.kind = "NamedNode" ->
             push_attribute(open, RDF_RESOURCE, object.iri)
        [] object.kind = "BlankNode" ->
             push_attribute(open, RDF_NODEID, object.iri)
        [] object.kind = "Simple" -> open
        [] object.kind = "LanguageTaggedString" ->
             push_attribute(open, XML_LANG, object.extra)
        [] object.kind = "Typed" ->
             push_attribute(open, RDF_DATATYPE, object.extra)

\* format_normal: the wrapper if the subject is new, then the property
format_normal(prefix, self, triple) ==
  LET wrapped ==
        IF self.current_subject = <<>>
           \/ Last(self.current_subject) # triple.subject
        THEN write_start(self, description_open(triple))
        ELSE self
      written ==
        IF IsLiteral(triple.object)
        THEN write_event(write_start(wrapped, property_open(prefix, triple)),
                         EventText(triple.object.iri))
        ELSE write_event(wrapped, EventEmpty(property_open(prefix, triple)))
  IN  [written EXCEPT !.current_subject = Append(@, triple.subject)]

\* format
format(prefix, self, triple) ==
  LET closed ==
        IF self.current_subject # <<>>
           /\ Last(self.current_subject) # triple.subject
        THEN write_close(self)
        ELSE self
  IN  IF closed.err
      THEN closed
      ELSE IF triple.predicate.iri = RDF_TYPE
           THEN IF triple.object.kind = "NamedNode"
                THEN write_start(
                       [closed EXCEPT
                          !.current_subject = Append(@, triple.subject)],
                       typed_open(prefix, triple))
                ELSE closed
           ELSE format_normal(prefix, closed, triple)

\* finish with an if in place of the while: one write_close
drain_Once(self) ==
  IF self.current_close # <<>>
  THEN write_close(self)
  ELSE self

\* The loop of finish: write_close until the close stack is empty
RECURSIVE drain(_)
drain(self) ==
  IF self.current_close # <<>> /\ ~self.err
  THEN drain(write_close(self))
  ELSE self

\* finish
finish(self) ==
  LET drained == drain(self)
  IN  IF drained.err
      THEN drained
      ELSE write_event(drained, EventEnd(RDF_RDF))

\* new with an insert that keeps a binding the configuration already has
new_prefix_KeepConfig(config) ==
  [ns \in DOMAIN config \cup {RDF_NS} |->
     IF ns \in DOMAIN config THEN config[ns] ELSE RDF_PREFIX]

\* new: the table always binds the RDF namespace to rdf
new_prefix(config) ==
  [ns \in DOMAIN config \cup {RDF_NS} |->
     IF ns = RDF_NS THEN RDF_PREFIX ELSE config[ns]]

\* write_prefix: one xmlns:prefix attribute per entry, in iteration order
RECURSIVE write_prefix(_, _, _)
write_prefix(prefix, order, rdf_open) ==
  IF order = <<>>
  THEN rdf_open
  ELSE write_prefix(prefix, Tail(order),
         push_attribute(rdf_open, XMLNS \o <<":">> \o prefix[Head(order)],
                        Head(order)))

\* write_declaration: the declaration and the open of rdf:RDF
write_declaration(prefix, order) ==
  <<EventDecl, EventStart(write_prefix(prefix, order, BytesStart(RDF_RDF, <<>>)))>>

\* ------------------------------------------------------------------------
\* Actions
\* ------------------------------------------------------------------------

\* AbbrevRdfXmlFormatter::new
Init ==
  \E config \in Configs :
    \E order \in Orders(DOMAIN new_prefix(config)) :
      /\ config_prefix = new_prefix(config)
      /\ writer = write_declaration(new_prefix(config), order)
      /\ current_subject = <<>>
      /\ current_close = <<>>
      /\ maybe_empty_open = <<>>
      /\ decided = <<>>
      /\ calls = <<>>
      /\ result = "none"
      /\ finished = FALSE
      /\ NoSplit
      /\ NoParser

Install(after) ==
  /\ writer' = after.writer
  /\ current_subject' = after.current_subject
  /\ current_close' = after.current_close
  /\ maybe_empty_open' = after.maybe_empty_open
  /\ decided' = after.decided
  /\ result' = IF after.err THEN "err" ELSE "ok"

\* One call of format
Format(triple) ==
  /\ ~finished
  /\ Len(calls) < MaxTriples
  /\ LET after == format(config_prefix, Self, triple)
     IN  /\ Install(after)
         /\ calls' = Append(calls, [triple |-> triple, ok |-> ~after.err])
  /\ UNCHANGED <<config_prefix, finished>>
  /\ UNCHANGED split_vars
  /\ UNCHANGED parser_vars

\* The call of finish, which consumes the formatter
Finish ==
  /\ ~finished
  /\ Install(finish(Self))
  /\ finished' = TRUE
  /\ UNCHANGED <<config_prefix, calls>>
  /\ UNCHANGED split_vars
  /\ UNCHANGED parser_vars

Next ==
  \/ \E triple \in Triples : Format(triple)
  \/ Finish

Spec == Init /\ [][Next]_vars

\* ------------------------------------------------------------------------
\* Vocabulary of the properties
\* ------------------------------------------------------------------------

IsTypeTriple(triple) == triple.predicate.iri = RDF_TYPE

\* The triples that take the typed-node path
IsTypedNode(triple) ==
  IsTypeTriple(triple) /\ triple.object.kind = "NamedNode"

AllOk == \A i \in 1 .. Len(calls) : calls[i].ok

\* The step is a call of format with this triple
FormatStep == calls' # calls

NewTriple == Last(calls').triple

\* The step is the call of finish
FinishStep == ~finished /\ finished'

\* The events a step has written
Written == SubSeq(writer', Len(writer) + 1, Len(writer'))

\* The names of the elements that are open after the events: a Start
\* opens its element, an End closes the innermost open element when it
\* names it and is unmatched otherwise.
RECURSIVE Nesting(_, _)
Nesting(events, open) ==
  IF events = <<>>
  THEN [open |-> open, matched |-> TRUE]
  ELSE LET e == Head(events)
       IN  CASE e.type = "Start" -> Nesting(Tail(events), Append(open, e.name))
             [] e.type = "End" ->
                  IF open # <<>> /\ Last(open) = e.name
                  THEN Nesting(Tail(events), Front(open))
                  ELSE [open |-> open, matched |-> FALSE]
             [] OTHER -> Nesting(Tail(events), open)

\* ------------------------------------------------------------------------
\* C1
\* ------------------------------------------------------------------------

\* C1: the events written for any sequence of triples are balanced: every
\* End names the innermost Start that is still open, and once finish has
\* returned every Start, rdf:RDF included, has had its End.
C1_Balanced ==
  AllOk =>
    /\ Nesting(writer, <<>>).matched
    /\ (finished /\ result = "ok") => Nesting(writer, <<>>).open = <<>>

\* ------------------------------------------------------------------------
\* C2
\* ------------------------------------------------------------------------

\* The calls are a type triple with a named node as object, followed by
\* one or more property triples of the same subject, followed by finish
TypedThenProperties ==
  /\ finished
  /\ AllOk
  /\ Len(calls) >= 2
  /\ IsTypedNode(calls[1].triple)
  /\ \A i \in 2 .. Len(calls) :
       /\ calls[i].triple.subject = calls[1].triple.subject
       /\ ~IsTypeTriple(calls[i].triple)

\* The events between the open and the close of rdf:RDF
Body == SubSeq(writer, 3, Len(writer) - 1)

\* C2: a type triple followed by property triples of its subject gives one
\* element named after the type, opened before the first property child and
\* closed after the last, with no property child for the type triple and no
\* rdf:Description.
C2_TypedElement ==
  TypedThenProperties =>
    LET open == typed_open(config_prefix, calls[1].triple)
    IN  /\ Len(Body) >= 3
        /\ Head(Body) = EventStart(open)
        /\ Last(Body) = EventEnd(open.name)
        /\ \A i \in 2 .. Len(Body) :
             Body[i].type \in {"Start", "Empty"} => Body[i].name # open.name
        /\ \A i \in 1 .. Len(Body) :
             /\ Body[i].name # RDF_DESCRIPTION
             /\ Body[i].name # bytes_for_iri(config_prefix, RDF_TYPE).name

\* ------------------------------------------------------------------------
\* C3
\* ------------------------------------------------------------------------

\* The step is a call of format that calls write_close: the last subject
\* is not the subject of the triple
SubjectChangeStep ==
  /\ FormatStep
  /\ current_subject # <<>>
  /\ Last(current_subject) # NewTriple.subject

\* C3: when write_close runs while an open is pending, the pending open is
\* the top of the close stack and the call writes one Empty event for it,
\* and no Start or End; a type triple leaves its element pending, so a
\* subject with only a type triple becomes one Empty event, at the next
\* triple of another subject and at finish.
C3_PendingCloseIsEmpty ==
  [][ /\ (maybe_empty_open # <<>> /\ (FinishStep \/ SubjectChangeStep)) =>
          /\ current_close # <<>>
          /\ Last(current_close) = maybe_empty_open[1].name
          /\ result' = "ok"
          /\ Len(Written) >= 1
          /\ Written[1] = EventEmpty(maybe_empty_open[1])
          /\ \A i \in 2 .. Len(Written) :
               Written[i] # EventStart(maybe_empty_open[1])
          /\ FinishStep => Len(Written) = Len(current_close) + 1
          /\ SubjectChangeStep =>
               \A i \in 1 .. Len(Written) : Written[i].type # "End"
      /\ (FormatStep /\ result' = "ok" /\ IsTypedNode(NewTriple)) =>
          /\ maybe_empty_open' = <<typed_open(config_prefix, NewTriple)>>
          /\ Last(current_subject') = NewTriple.subject
    ]_vars

\* A type triple, then a triple of another subject: the element of the
\* first subject was written as one Empty event
C3_Witness ==
  /\ Len(calls) >= 2
  /\ AllOk
  /\ IsTypedNode(calls[1].triple)
  /\ calls[2].triple.subject # calls[1].triple.subject
  /\ writer[3] = EventEmpty(typed_open(config_prefix, calls[1].triple))

\* ------------------------------------------------------------------------
\* C4
\* ------------------------------------------------------------------------

\* C4: a decided open is never lost or overwritten: the event written next
\* after an open is decided is its Start (or its Empty, when it is closed
\* while pending), until then it is the pending open, and no other open is
\* decided before that event.
C4_PendingNeverLost ==
  \A k \in 1 .. Len(decided) :
    LET d == decided[k]
    IN  /\ k < Len(decided) => decided[k + 1].at > d.at
        /\ IF Len(writer) > d.at
           THEN writer[d.at + 1] \in {EventStart(d.open), EventEmpty(d.open)}
           ELSE maybe_empty_open = <<d.open>>

\* ------------------------------------------------------------------------
\* C5
\* ------------------------------------------------------------------------

\* The opens a step has decided
Decided == SubSeq(decided', Len(decided) + 1, Len(decided'))

\* C5: when a triple has another subject than the triple before it, the
\* element of the previous subject is closed before an element of the new
\* subject is opened: the elements open after the call are elements this
\* call has opened, the first of them directly under rdf:RDF.
C5_SubjectsAreSiblings ==
  [][ ( /\ FormatStep
        /\ result' = "ok"
        /\ calls # <<>>
        /\ Last(calls).triple.subject # NewTriple.subject ) =>
          /\ Len(current_close') <= Len(Decided)
          /\ \A i \in 1 .. Len(current_close') :
               current_close'[i] = Decided[i].open.name
    ]_vars

\* ------------------------------------------------------------------------
\* C6
\* ------------------------------------------------------------------------

\* The opens that carry rdf:about or rdf:nodeID: the rdf:Description
\* wrappers and the typed elements
IsSubjectOpen(bs) ==
  \E i \in 1 .. Len(bs.attrs) : bs.attrs[i][1] \in {RDF_ABOUT, RDF_NODEID}

SubjectElements ==
  Cardinality({k \in 1 .. Len(decided) : IsSubjectOpen(decided[k].open)})

\* The maximal runs of consecutive triples with the same subject
Runs ==
  Cardinality({i \in 1 .. Len(calls) :
                 i = 1 \/ calls[i].triple.subject # calls[i - 1].triple.subject})

\* C6: the formatter opens as many subject elements (wrappers and typed
\* elements) as the triples have maximal runs of one subject.
C6_OneElementPerRun == AllOk => SubjectElements = Runs

\* ------------------------------------------------------------------------
\* C7
\* ------------------------------------------------------------------------

\* C7: when format returns from a property triple with a literal object,
\* the last events written are the Start, the Text and the End of the
\* property element, and its name is not on the close stack.
C7_LiteralPropertyClosed ==
  ( /\ calls # <<>>
    /\ ~finished
    /\ Last(calls).ok
    /\ ~IsTypeTriple(Last(calls).triple)
    /\ IsLiteral(Last(calls).triple.object) ) =>
      LET open == property_open(config_prefix, Last(calls).triple)
          n == Len(writer)
      IN  /\ n >= 3
          /\ writer[n - 2] = EventStart(open)
          /\ writer[n - 1] = EventText(Last(calls).triple.object.iri)
          /\ writer[n] = EventEnd(open.name)
          /\ \A i \in 1 .. Len(current_close) : current_close[i] # open.name

\* ------------------------------------------------------------------------
\* C8
\* ------------------------------------------------------------------------

\* C8: only a type triple whose object is a named node leaves a typed
\* element pending; every other triple, a type triple with a blank node or
\* a literal as object included, opens a wrapper when the last subject is
\* another one and writes its property child; no call writes nothing and
\* decides nothing.
C8_TypeTripleNeverDropped ==
  [][ (FormatStep /\ result' = "ok") =>
        LET property == property_open(config_prefix, NewTriple)
        IN  /\ maybe_empty_open' # <<>> <=> IsTypedNode(NewTriple)
            /\ ~IsTypedNode(NewTriple) =>
                 /\ \E i \in 1 .. Len(Written) :
                      Written[i] = IF IsLiteral(NewTriple.object)
                                   THEN EventStart(property)
                                   ELSE EventEmpty(property)
                 /\ (current_subject = <<>>
                     \/ Last(current_subject) # NewTriple.subject) =>
                      \E k \in 1 .. Len(Decided) :
                        Decided[k].open = description_open(NewTriple)
            /\ Written # <<>> \/ Decided # <<>>
    ]_vars

\* ------------------------------------------------------------------------
\* C9
\* ------------------------------------------------------------------------

\* C9: finish pops every entry of the close stack, writing Empty for a
\* pending open and End for every other entry, innermost first, leaves the
\* stack empty and nothing pending, writes End(rdf:RDF) last and does not
\* return the error of write_close.
C9_FinishDrains ==
  [][ FinishStep =>
        LET n == Len(current_close)
        IN  /\ result' = "ok"
            /\ current_close' = <<>>
            /\ maybe_empty_open' = <<>>
            /\ SubSeq(writer', 1, Len(writer)) = writer
            /\ Written =
                 [k \in 1 .. n + 1 |->
                    IF k = n + 1
                    THEN EventEnd(RDF_RDF)
                    ELSE IF k = 1 /\ maybe_empty_open # <<>>
                         THEN EventEmpty(maybe_empty_open[1])
                         ELSE EventEnd(current_close[n + 1 - k])]
    ]_vars

\* finish has drained two entries, the inner one a pending open
C9_Witness ==
  /\ finished
  /\ result = "ok"
  /\ AllOk
  /\ Len(writer) >= 5
  /\ Last(writer) = EventEnd(RDF_RDF)
  /\ writer[Len(writer) - 1] = EventEnd(RDF_DESCRIPTION)
  /\ writer[Len(writer) - 2].type = "Empty"
  /\ decided # <<>>
  /\ Last(decided).at = Len(writer) - 3

\* ------------------------------------------------------------------------
\* C10
\* ------------------------------------------------------------------------

\* C10: write_close on an empty close stack returns the error, writes no
\* event and leaves the close stack, the pending open and the last subject
\* as they were.
C10_CloseOnEmptyStack ==
  [][ (SubjectChangeStep /\ current_close = <<>>) =>
        /\ result' = "err"
        /\ ~Last(calls').ok
        /\ UNCHANGED <<writer, current_close, maybe_empty_open,
                       current_subject, decided>>
    ]_vars

\* A call of format has returned the error
C10_Witness ==
  /\ result = "err"
  /\ current_close = <<>>
  /\ current_subject # <<>>
  /\ Last(calls).triple.subject # Last(current_subject)

\* ------------------------------------------------------------------------
\* C16
\* ------------------------------------------------------------------------

\* C16: after a call of format that returns Ok, the last entry of
\* current_subject is the subject of the triple of that call.
C16_LastSubjectIsLastTriple ==
  (calls # <<>> /\ Last(calls).ok) =>
    /\ current_subject # <<>>
    /\ Last(current_subject) = Last(calls).triple.subject

\* ------------------------------------------------------------------------
\* C17
\* ------------------------------------------------------------------------

\* The iris the formatter names elements after
NamedIris == {RDF_TYPE, EX_PERSON, EX_NAME}

\* C17: the table binds the RDF namespace to rdf whatever the
\* configuration and no call changes it; an iri whose namespace part is a
\* key of the table is named prefix:local with no xmlns attribute, any other
\* iri by its local part with the namespace part as xmlns attribute; the
\* elements format decides and writes are named so.
C17_NamesFromTable ==
  /\ [] ( /\ RDF_NS \in DOMAIN config_prefix
          /\ config_prefix[RDF_NS] = RDF_PREFIX
          /\ bytes_for_iri(config_prefix, RDF_TYPE) =
               [name |-> <<"r", "d", "f", ":", "t", "y", "p", "e">>,
                attrs |-> <<>>]
          /\ \A iri \in NamedIris :
               LET ns == split_iri(iri)[1]
                   local == split_iri(iri)[2]
                   bs == bytes_for_iri(config_prefix, iri)
               IN  IF ns \in DOMAIN config_prefix
                   THEN /\ bs.name = config_prefix[ns] \o <<":">> \o local
                        /\ bs.attrs = <<>>
                   ELSE /\ bs.name = local
                        /\ bs.attrs = <<<<XMLNS, ns>>>> )
  /\ [][ /\ config_prefix' = config_prefix
         /\ (FormatStep /\ result' = "ok" /\ IsTypedNode(NewTriple)) =>
              Last(decided').open.name =
                IF EX_NS \in DOMAIN config_prefix
                THEN <<"s", ":", "P", "e", "r", "s", "o", "n">>
                ELSE <<"P", "e", "r", "s", "o", "n">>
         /\ (FormatStep /\ result' = "ok" /\ ~IsTypeTriple(NewTriple)) =>
              \E i \in 1 .. Len(Written) :
                /\ Written[i].type \in {"Start", "Empty"}
                /\ Written[i].name =
                     IF EX_NS \in DOMAIN config_prefix
                     THEN <<"s", ":", "n", "a", "m", "e">>
                     ELSE <<"n", "a", "m", "e">>
                /\ (EX_NS \notin DOMAIN config_prefix) =>
                     Written[i].attrs[1] = <<XMLNS, EX_NS>>
       ]_vars

\* Both cases have been written: a property named with the prefix of a
\* registered namespace after finish, the table being the configured one
C17_Witness ==
  /\ finished
  /\ DOMAIN config_prefix = {RDF_NS, EX_NS}
  /\ \E i \in 1 .. Len(writer) :
       writer[i] = EventEmpty([name |-> <<"s", ":", "n", "a", "m", "e">>,
                               attrs |-> <<<<RDF_NODEID, BNODE_ID>>>>])

\* ------------------------------------------------------------------------
\* C19
\* ------------------------------------------------------------------------

\* C19: no call of format returns the error of write_close.
C19_FormatNeverFails == \A i \in 1 .. Len(calls) : calls[i].ok

\* ------------------------------------------------------------------------
\* split_iri on its own: the iri is any string of at most MaxIriLen
\* characters of IriAlphabet, or the iri of the documented example
\* ------------------------------------------------------------------------

MaxIriLen == 4

\* A name start character, a name character that starts no name, the
\* colon and a character that is no name character
IriAlphabet == {"a", "1", ":", "/"}

SCHEMA_ORG_NS ==
  <<"h", "t", "t", "p", ":", "/", "/", "s", "c", "h", "e", "m", "a", ".",
    "o", "r", "g", "/">>

SCHEMA_ORG_PERSON == SCHEMA_ORG_NS \o <<"P", "e", "r", "s", "o", "n">>

Iris ==
  UNION {[1 .. n -> IriAlphabet] : n \in 0 .. MaxIriLen}
    \cup {SCHEMA_ORG_PERSON}

\* The formatter of the other specification, unused here
NoFormatter ==
  /\ writer = <<>>
  /\ config_prefix = <<>>
  /\ current_subject = <<>>
  /\ current_close = <<>>
  /\ maybe_empty_open = <<>>
  /\ decided = <<>>
  /\ calls = <<>>
  /\ result = "none"
  /\ finished = FALSE

SplitInit ==
  /\ split_arg \in Iris
  /\ split_ret = <<>>
  /\ NoFormatter
  /\ NoParser

\* The call split_iri(split_arg)
Split ==
  /\ split_ret = <<>>
  /\ split_ret' = <<split_iri(split_arg)>>
  /\ UNCHANGED split_arg
  /\ UNCHANGED vars
  /\ UNCHANGED parser_vars

SplitNext == Split

SplitSpec == SplitInit /\ [][SplitNext]_<<vars, split_vars>>

\* ------------------------------------------------------------------------
\* C15
\* ------------------------------------------------------------------------

\* A valid local name: a name start character other than the colon, then
\* name characters other than the colon
IsLocalName(s) ==
  /\ s # <<>>
  /\ is_name_start_char(s[1])
  /\ \A i \in 1 .. Len(s) : is_name_char(s[i]) /\ s[i] # ":"

\* The positions at which a suffix that is a valid local name starts
LocalNameStarts(s) ==
  {k \in 1 .. Len(s) : IsLocalName(SubSeq(s, k, Len(s)))}

\* The string has a character that is no name character or is the colon
HasDelimiter(s) ==
  \E i \in 1 .. Len(s) : ~is_name_char(s[i]) \/ s[i] = ":"

\* The split at the longest suffix that is a valid local name, the whole
\* string and the empty local name when there is none
SplitAtLongestLocalName(s) ==
  IF LocalNameStarts(s) = {}
  THEN <<s, <<>>>>
  ELSE LET k == CHOOSE k \in LocalNameStarts(s) :
                  \A j \in LocalNameStarts(s) : k <= j
       IN  <<SubSeq(s, 1, k - 1), SubSeq(s, k, Len(s))>>

\* C15, as claimed: namespace and local give back the input, and local is
\* the longest suffix of the input that is a valid local name, empty only
\* when there is no such suffix.
C15_LongestLocalName ==
  split_ret # <<>> =>
    /\ split_ret[1][1] \o split_ret[1][2] = split_arg
    /\ split_ret[1] = SplitAtLongestLocalName(split_arg)

\* C15, amended: as claimed for an input that has a character that is no
\* name character or is the colon; for an input without such a character
\* the namespace is the whole input and the local name is empty.
C15_LongestLocalNameAfterDelimiter ==
  split_ret # <<>> =>
    /\ split_ret[1][1] \o split_ret[1][2] = split_arg
    /\ split_ret[1] = IF HasDelimiter(split_arg)
                      THEN SplitAtLongestLocalName(split_arg)
                      ELSE <<split_arg, <<>>>>

\* The documented example has been split
C15_Witness ==
  /\ split_arg = SCHEMA_ORG_PERSON
  /\ split_ret = <<<<SCHEMA_ORG_NS, <<"P", "e", "r", "s", "o", "n">>>>>>

\* ------------------------------------------------------------------------
\* The N-Triples parser (turtle/src/ntriples.rs).  The input is a sequence
\* of one-character strings, read through a cursor with one byte of
\* lookahead; one call of parse_step is one action.  The reader is an
\* in-memory one: consume never fails.
\* ------------------------------------------------------------------------

\* The end-of-input sentinel of the reader
EOF == "EOF"

\* The parser during a call: the cursor, the four buffers, the kinds of the
\* terms read, whether a triple was assembled and whether the call failed
Parser ==
  [pos |-> read_pos,
   subject_buf |-> subject_buf,
   predicate_buf |-> predicate_buf,
   object_buf |-> object_buf,
   object_annotation_buf |-> object_annotation_buf,
   subject |-> "none",
   object |-> "none",
   triple |-> FALSE,
   err |-> FALSE]

\* read.current()
current(p) == IF p.pos <= Len(input) THEN input[p.pos] ELSE EOF

\* read.consume(); every operation below is skipped once a call has failed,
\* as the ? operator returns from the callers
consume(p) ==
  IF p.err \/ p.pos > Len(input) THEN p ELSE [p EXCEPT !.pos = @ + 1]

\* read.unexpected_char_error()
unexpected_char_error(p) == [p EXCEPT !.err = TRUE]

\* read.check_is_current(expected)
check_is_current(p, expected) ==
  IF p.err \/ current(p) = expected THEN p ELSE unexpected_char_error(p)

\* buffer.push(c)
push(p, buffer, c) ==
  IF p.err THEN p ELSE [p EXCEPT ![buffer] = Append(@, c)]

\* One statement after another: Op works on the parser that the statements
\* before it have left
and_then(p, Op(_)) == CHOOSE after \in {Op(before) : before \in {p}} : TRUE

\* skip_whitespace
RECURSIVE skip_whitespace(_)
skip_whitespace(p) ==
  IF p.err
  THEN p
  ELSE IF current(p) \in {" ", "\t"}
       THEN and_then(consume(p), skip_whitespace)
       ELSE p

\* skip_until_eol that leaves the newline unread
RECURSIVE skip_until_eol_KeepNewline(_)
skip_until_eol_KeepNewline(p) ==
  IF p.err
  THEN p
  ELSE IF current(p) \in {EOF, "\n"}
       THEN p
       ELSE and_then(consume(p), skip_until_eol_KeepNewline)

\* skip_until_eol
RECURSIVE skip_until_eol(_)
skip_until_eol(p) ==
  IF p.err
  THEN p
  ELSE CASE current(p) = EOF -> p
         [] current(p) = "\n" -> consume(p)
         [] OTHER -> and_then(consume(p), skip_until_eol)

\* The bytes that end an iri reference without closing it
IriForbidden == {EOF, "\n", "\r", " ", "\t", "<", "\""}

\* parse_iriref_absolute, after the <: the bytes up to the > are appended
RECURSIVE iriref_body(_, _)
iriref_body(p, buffer) ==
  IF p.err
  THEN p
  ELSE CASE current(p) = ">" -> consume(p)
         [] current(p) \in IriForbidden -> unexpected_char_error(p)
         [] OTHER -> and_then(consume(push(p, buffer, current(p))),
                              LAMBDA q : iriref_body(q, buffer))

\* parse_iriref_absolute
parse_iriref_absolute(p, buffer) ==
  and_then(consume(check_is_current(p, "<")),
           LAMBDA q : iriref_body(q, buffer))

\* The characters of a blank node label and of a language tag
LabelChars == Letters \cup Digits \cup {"_", "-"}

\* The run of label characters is appended to the buffer
RECURSIVE label_body(_, _)
label_body(p, buffer) ==
  IF p.err
  THEN p
  ELSE IF current(p) \in LabelChars
       THEN and_then(consume(push(p, buffer, current(p))),
                     LAMBDA q : label_body(q, buffer))
       ELSE p

\* A label or a tag of at least one character
at_least_one(p, buffer) ==
  IF p.err
  THEN p
  ELSE IF current(p) \in Letters
       THEN label_body(p, buffer)
       ELSE unexpected_char_error(p)

\* parse_blank_node_label: _: and a label
parse_blank_node_label(p, buffer) ==
  and_then(check_is_current(p, "_"), LAMBDA underscore :
    and_then(check_is_current(consume(underscore), ":"), LAMBDA colon :
      and_then(consume(colon), LAMBDA q : at_least_one(q, buffer))))

\* parse_string_literal_quote, after the opening quote
RECURSIVE string_body(_, _)
string_body(p, buffer) ==
  IF p.err
  THEN p
  ELSE CASE current(p) = "\"" -> consume(p)
         [] current(p) \in {EOF, "\n", "\r"} -> unexpected_char_error(p)
         [] OTHER -> and_then(consume(push(p, buffer, current(p))),
                              LAMBDA q : string_body(q, buffer))

\* parse_string_literal_quote
parse_string_literal_quote(p, buffer) ==
  and_then(consume(check_is_current(p, "\"")),
           LAMBDA q : string_body(q, buffer))

\* parse_langtag: @ and a tag
parse_langtag(p, buffer) ==
  and_then(consume(check_is_current(p, "@")),
           LAMBDA q : at_least_one(q, buffer))

\* parse_iriref that also takes a blank node label
parse_iriref_OrBlankNode(p, buffer) ==
  IF current(p) = "_"
  THEN parse_blank_node_label(p, buffer)
  ELSE parse_iriref_absolute(p, buffer)

\* parse_iriref
parse_iriref(p, buffer) == parse_iriref_absolute(p, buffer)

\* The kind of a term is recorded once the term is read
term(p, field, kind) == IF p.err THEN p ELSE [p EXCEPT ![field] = kind]

\* parse_literal, after the quoted string and the whitespace
literal_annotation(p) ==
  IF p.err
  THEN p
  ELSE CASE current(p) = "@" ->
              and_then(parse_langtag(p, "object_annotation_buf"),
                       LAMBDA q : term(q, "object", "LanguageTaggedString"))
         [] current(p) = "^" ->
              and_then(check_is_current(consume(p), "^"), LAMBDA hat :
                and_then(skip_whitespace(consume(hat)), LAMBDA datatype :
                  and_then(parse_iriref(datatype, "object_annotation_buf"),
                           LAMBDA q : term(q, "object", "Typed"))))
         [] OTHER -> term(p, "object", "Simple")

\* parse_literal
parse_literal(p) ==
  and_then(parse_string_literal_quote(p, "object_buf"), LAMBDA quoted :
    and_then(skip_whitespace(quoted), literal_annotation))

\* parse_term
parse_term(p) ==
  IF p.err
  THEN p
  ELSE CASE current(p) = "<" ->
              and_then(parse_iriref(p, "object_buf"),
                       LAMBDA q : term(q, "object", "NamedNode"))
         [] current(p) = "_" ->
              and_then(parse_blank_node_label(p, "object_buf"),
                       LAMBDA q : term(q, "object", "BlankNode"))
         [] current(p) = "\"" -> parse_literal(p)
         [] OTHER -> unexpected_char_error(p)

\* parse_named_or_blank_node
parse_named_or_blank_node(p) ==
  IF p.err
  THEN p
  ELSE CASE current(p) = "<" ->
              and_then(parse_iriref(p, "subject_buf"),
                       LAMBDA q : term(q, "subject", "NamedNode"))
         [] current(p) = "_" ->
              and_then(parse_blank_node_label(p, "subject_buf"),
                       LAMBDA q : term(q, "subject", "BlankNode"))
         [] OTHER -> unexpected_char_error(p)

\* The line ends without the end of the input
LineEnd_NoEof == {"#", "\r", "\n"}

\* The bytes at which parse_line takes the line to be over
LineEnd == {EOF, "#", "\r", "\n"}

\* parse_line, the check of what follows the .
end_of_line(p) ==
  IF p.err
  THEN p
  ELSE IF current(p) \in LineEnd
       THEN skip_until_eol(p)
       ELSE unexpected_char_error(p)

\* Some(Triple) is the result of parse_line
some_triple(p) == IF p.err THEN p ELSE [p EXCEPT !.triple = TRUE]

\* parse_line, from the subject on
statement(p) ==
  and_then(parse_named_or_blank_node(p), LAMBDA subject :
    and_then(skip_whitespace(subject), LAMBDA s1 :
      and_then(parse_iriref(s1, "predicate_buf"), LAMBDA predicate :
        and_then(skip_whitespace(predicate), LAMBDA s2 :
          and_then(parse_term(s2), LAMBDA object :
            and_then(skip_whitespace(object), LAMBDA s3 :
              and_then(check_is_current(s3, "."), LAMBDA dot :
                and_then(skip_whitespace(consume(dot)), LAMBDA rest :
                  and_then(end_of_line(rest), some_triple)))))))))

\* parse_line that leaves a line with nothing to parse unread
parse_line_start_KeepLine(p) ==
  IF current(p) \in LineEnd THEN p ELSE statement(p)

\* parse_line: triple is set when the line gave a triple
parse_line_start(p) ==
  IF current(p) \in LineEnd THEN skip_until_eol(p) ELSE statement(p)

parse_line(p) == and_then(skip_whitespace(p), parse_line_start)

\* The Triple given to on_triple borrows the buffers
Triple(p) ==
  [subject |-> [kind |-> p.subject, value |-> p.subject_buf],
   predicate |-> p.predicate_buf,
   object |-> [kind |-> p.object, value |-> p.object_buf,
               annotation |-> p.object_annotation_buf]]

\* parse_step, after parse_line: the buffers are cleared when the line gave a
\* triple; an error returns before that
after_line(line) ==
  IF line.err
  THEN [line EXCEPT !.triple = FALSE]
  ELSE IF line.triple
       THEN [line EXCEPT !.subject_buf = <<>>,
                         !.predicate_buf = <<>>,
                         !.object_buf = <<>>,
                         !.object_annotation_buf = <<>>]
       ELSE line

\* on_triple called for every line that parse_line does not fail on
on_triple_EveryLine(line) == IF ~line.err THEN <<Triple(line)>> ELSE <<>>

\* The calls of on_triple that parse_step makes with the result of parse_line
on_triple(line) ==
  IF ~line.err /\ line.triple THEN <<Triple(line)>> ELSE <<>>

\* is_end
is_end == current(Parser) = EOF

\* ------------------------------------------------------------------------
\* The documents parsed: up to MaxLines lines, the last one with or without
\* its newline.  Line n names its terms by the n-th letter.
\* ------------------------------------------------------------------------

MaxLines == 2

LineLetters == <<"a", "b", "c", "d">>

Iri(n) == <<"<", LineLetters[n], ">">>
Bnode(n) == <<"_", ":", LineLetters[n]>>
Lit(n) == <<"\"", LineLetters[n], "\"">>
Lang(n) == Lit(n) \o <<"@", "e">>
Typed(n) == Lit(n) \o <<"^", "^">> \o Iri(n)

TermOf(form, n) ==
  CASE form = "iri" -> Iri(n)
    [] form = "bnode" -> Bnode(n)
    [] form = "lit" -> Lit(n)
    [] form = "lang" -> Lang(n)
    [] form = "typed" -> Typed(n)

\* What follows the object of a statement line
EndOf(ending, n) ==
  CASE ending = "dot" -> <<" ", ".">>
    [] ending = "tight" -> <<".">>
    [] ending = "comment" -> <<" ", ".", " ", "#", "c">>
    [] ending = "crlf" -> <<" ", ".", "\r">>
    [] ending = "cr" -> <<" ", ".", "\r", "x">>
    [] ending = "second" -> <<" ", ".", " ">> \o Iri(n)
    [] ending = "none" -> <<>>
    [] ending = "fourth" -> <<" ">> \o Iri(n) \o <<" ", ".">>

BlankLines ==
  {<<>>, <<" ">>, <<"#", "c">>, <<"\t", "#", "c">>, <<"\r">>}

LineShapes ==
  {<<s, "iri", o, "dot">> : s \in {"iri", "bnode"},
                            o \in {"iri", "bnode", "lit"}}
  \cup {<<s, p, o, "dot">> : s \in {"iri", "bnode"},
                             p \in {"bnode", "lit"},
                             o \in {"iri", "lit"}}
  \cup {<<"iri", "iri", "iri", e>> :
          e \in {"tight", "comment", "crlf", "cr", "second", "none"}}
  \cup {<<"iri", "iri", "lang", "dot">>,
        <<"iri", "iri", "typed", "dot">>,
        <<"bnode", "iri", "lang", "comment">>,
        <<"lit", "iri", "iri", "dot">>,
        <<"iri", "bnode", "iri", "fourth">>}

Statement(shape, n) ==
  TermOf(shape[1], n) \o <<" ">> \o TermOf(shape[2], n) \o <<" ">>
    \o TermOf(shape[3], n) \o EndOf(shape[4], n)

Lines(n) == BlankLines \cup {Statement(shape, n) : shape \in LineShapes}

\* The documents of exactly n lines, each line ended by a newline
RECURSIVE Documents(_)
Documents(n) ==
  IF n = 0
  THEN {<<>>}
  ELSE {d \o l \o <<"\n">> : d \in Documents(n - 1), l \in Lines(n)}

Inputs ==
  UNION {Documents(n) : n \in 0 .. MaxLines}
  \cup UNION {{d \o l : d \in Documents(n - 1), l \in Lines(n)} :
                n \in 1 .. MaxLines}

\* NTriplesParser::new on a document
New ==
  /\ input \in Inputs
  /\ read_pos = 1
  /\ subject_buf = <<>>
  /\ predicate_buf = <<>>
  /\ object_buf = <<>>
  /\ object_annotation_buf = <<>>
  /\ delivered = <<>>
  /\ parse_result = "none"
  /\ NoFormatter
  /\ NoSplit

\* The caller calls parse_step itself
ParseInit ==
  /\ New
  /\ parse_all = "none"

\* The variables after a call of parse_step that read the line as given
Return(line) ==
  /\ read_pos' = after_line(line).pos
  /\ subject_buf' = after_line(line).subject_buf
  /\ predicate_buf' = after_line(line).predicate_buf
  /\ object_buf' = after_line(line).object_buf
  /\ object_annotation_buf' = after_line(line).object_annotation_buf
  /\ delivered' = delivered \o on_triple(line)
  /\ parse_result' = IF line.err THEN "err" ELSE "ok"

\* One call of parse_step by the caller
ParseStep ==
  /\ \E line \in {parse_line(Parser)} : Return(line)
  /\ UNCHANGED parse_all
  /\ UNCHANGED input
  /\ UNCHANGED vars
  /\ UNCHANGED split_vars

ParseNext == ParseStep

ParseSpec == ParseInit /\ [][ParseNext]_<<vars, split_vars, parser_vars>>

\* ------------------------------------------------------------------------
\* parse_all: parse_step is called until is_end, the first error is
\* returned.  One turn of its loop is one action.
\* ------------------------------------------------------------------------

\* The caller calls parse_all on the new parser
ParseAllInit ==
  /\ New
  /\ parse_all = "running"

\* A turn of the loop: parse_step is called, its error is returned
ParseAllTurn ==
  /\ parse_all = "running"
  /\ ~is_end
  /\ \E line \in {parse_line(Parser)} :
       /\ Return(line)
       /\ parse_all' = IF line.err THEN "err" ELSE "running"
  /\ UNCHANGED input
  /\ UNCHANGED vars
  /\ UNCHANGED split_vars

\* The loop ends at the end of the input
ParseAllEnd ==
  /\ parse_all = "running"
  /\ is_end
  /\ parse_all' = "ok"
  /\ UNCHANGED <<input, read_pos, subject_buf, predicate_buf, object_buf,
                 object_annotation_buf, delivered, parse_result>>
  /\ UNCHANGED vars
  /\ UNCHANGED split_vars

ParseAllNext ==
  \/ ParseAllTurn
  \/ ParseAllEnd

\* A call of parse_all runs on: the program is sequential and nothing else
\* is scheduled
ParseAllSpec ==
  /\ ParseAllInit
  /\ [][ParseAllNext]_<<vars, split_vars, parser_vars>>
  /\ WF_<<vars, split_vars, parser_vars>>(ParseAllNext)

\* ------------------------------------------------------------------------
\* Properties of the parser
\* ------------------------------------------------------------------------

\* The byte of the document at position i
ByteAt(i) == IF i \in 1 .. Len(input) THEN input[i] ELSE EOF

\* The first position from i on that holds neither a space nor a tab
AfterBlanks(i) ==
  CHOOSE j \in i .. Len(input) + 1 :
    /\ ByteAt(j) \notin {" ", "\t"}
    /\ \A k \in i .. j - 1 : ByteAt(k) \in {" ", "\t"}

\* The position after the first newline from i on, the end of the document
\* when there is none
NextLine(i) ==
  IF \E k \in i .. Len(input) : input[k] = "\n"
  THEN 1 + CHOOSE k \in i .. Len(input) :
             /\ input[k] = "\n"
             /\ \A m \in i .. k - 1 : input[m] # "\n"
  ELSE Len(input) + 1

\* The call of parse_step begins at a line with nothing to parse
AtBlankLine == ByteAt(AfterBlanks(read_pos)) \in {EOF, "#", "\r", "\n"}

\* C12: a parse_step that finds, after the leading spaces and tabs, the end
\* of the input, a #, a carriage return or a newline returns Ok, does not
\* call on_triple and consumes the bytes up to and including the first
\* newline (or up to the end of the input), none of the next line.
C12_BlankLineSkipped ==
  [][AtBlankLine =>
       /\ parse_result' = "ok"
       /\ delivered' = delivered
       /\ read_pos' = NextLine(read_pos)]_parser_vars

\* A comment line was skipped and the line after it is still unread
C12_Witness ==
  /\ Len(input) > 0
  /\ input[1] = "#"
  /\ parse_result = "ok"
  /\ read_pos = NextLine(1)
  /\ ByteAt(read_pos) = "<"

\* What a parse_step called at the end of the input does
StepAtEndIsIdle ==
  \A line \in {parse_line(Parser)} :
    /\ ~line.err
    /\ on_triple(line) = <<>>
    /\ after_line(line).pos = read_pos

\* C18: once is_end is true, every further parse_step returns Ok, calls
\* on_triple zero times and consumes nothing, and is_end stays true.
C18_EndIsStable ==
  /\ [](is_end => StepAtEndIsIdle)
  /\ [][is_end =>
          /\ parse_result' = "ok"
          /\ delivered' = delivered
          /\ read_pos' = read_pos
          /\ is_end']_parser_vars

\* A parse_step was called at the end of an input whose last line stopped
\* after the object, and returned Ok
C18_Witness ==
  /\ is_end
  /\ parse_result = "ok"
  /\ object_buf # <<>>
  /\ ByteAt(Len(input)) = ">"

\* A subject, an iri reference or a blank node label of one letter, stands
\* at position i
SubjectAt(i) ==
  \/ /\ ByteAt(i) = "<"
     /\ ByteAt(i + 1) \in Letters
     /\ ByteAt(i + 2) = ">"
  \/ /\ ByteAt(i) = "_"
     /\ ByteAt(i + 1) = ":"
     /\ ByteAt(i + 2) \in Letters
     /\ ByteAt(i + 3) \notin LabelChars

\* The position of the predicate of the line whose subject stands at i
PredicateAfter(i) == AfterBlanks(i + 3)

\* The call of parse_step begins at a line with a subject and, in the place
\* of the predicate, a byte that is not <
AtBadPredicate ==
  /\ SubjectAt(AfterBlanks(read_pos))
  /\ ByteAt(PredicateAfter(AfterBlanks(read_pos))) # "<"

\* C11: a parse_step on a line with a valid subject whose predicate does not
\* begin with < returns an error and does not call on_triple, whatever the
\* object is.
C11_PredicateIsIri ==
  [][AtBadPredicate =>
       /\ parse_result' = "err"
       /\ delivered' = delivered]_parser_vars

\* A parse_step has stopped at a blank node label in the place of the
\* predicate, after the subject of the first line
C11_Witness ==
  /\ parse_result = "err"
  /\ delivered = <<>>
  /\ SubjectAt(1)
  /\ read_pos = PredicateAfter(1)
  /\ ByteAt(read_pos) = "_"
  /\ predicate_buf = <<>>

\* A . stands at or after position i
HasDot(i) == \E d \in i .. Len(input) : input[d] = "."

\* The position of the first . from i on
FirstDot(i) ==
  CHOOSE d \in i .. Len(input) :
    /\ input[d] = "."
    /\ \A k \in i .. d - 1 : input[k] # "."

\* From position i the line holds, after spaces and tabs, nothing more, a
\* comment or the end of the input; a carriage return before the newline
\* belongs to the end of the line
RestIsEmpty(i) ==
  LET r == AfterBlanks(i)
  IN  \/ ByteAt(r) \in {EOF, "\n", "#"}
      \/ /\ ByteAt(r) = "\r"
         /\ ByteAt(r + 1) \in {EOF, "\n"}

\* C13: a parse_step yields a triple, or returns Ok on a line that is not
\* blank, only if a . follows the object and the rest of the line after the
\* . is empty, a comment or the end of the input; with anything else after
\* the . the parse_step returns an error and delivers no triple.
C13_NothingAfterTerminator ==
  [][(\/ delivered' # delivered
      \/ ~AtBlankLine /\ parse_result' = "ok") =>
       /\ HasDot(read_pos)
       /\ FirstDot(read_pos) < read_pos'
       /\ RestIsEmpty(FirstDot(read_pos) + 1)]_parser_vars

\* The line a delivered triple was read from, by the letter its predicate
\* ends with
LineOf(triple) ==
  CHOOSE n \in 1 .. Len(LineLetters) : LineLetters[n] = Last(triple.predicate)

\* The three terms of a delivered triple were read
IsWhole(triple) ==
  /\ triple.subject.kind \in {"NamedNode", "BlankNode"}
  /\ triple.subject.value # <<>>
  /\ triple.predicate # <<>>
  /\ triple.object.kind \in
       {"NamedNode", "BlankNode", "Simple", "LanguageTaggedString", "Typed"}
  /\ triple.object.value # <<>>

\* C14: on_triple is called exactly once by a parse_step that accepts a
\* statement line, after the three terms, the . and the end of the line were
\* read, and in the order of the lines; a parse_step that returns an error
\* or reads a blank or comment line does not call it.
C14_OneCallPerStatement ==
  [][/\ SubSeq(delivered', 1, Len(delivered)) = delivered
     /\ Len(delivered') =
          Len(delivered)
            + (IF parse_result' = "ok" /\ ~AtBlankLine THEN 1 ELSE 0)
     /\ delivered' # delivered =>
          /\ IsWhole(Last(delivered'))
          /\ HasDot(read_pos)
          /\ FirstDot(read_pos) < read_pos'
          /\ read_pos' = NextLine(read_pos)
          /\ \A i \in 1 .. Len(delivered) :
               LineOf(delivered[i]) < LineOf(Last(delivered'))]_parser_vars

\* Two statement lines were accepted, one triple each, and the input is
\* read to its end
C14_Witness ==
  /\ Len(delivered) = 2
  /\ LineOf(delivered[1]) = 1
  /\ LineOf(delivered[2]) = 2
  /\ parse_result = "ok"
  /\ is_end

\* The bytes of the terms of a delivered triple, the annotation of a
\* literal apart
TermBytes(triple) ==
  {triple.subject.value[i] : i \in 1 .. Len(triple.subject.value)}
  \cup {triple.predicate[i] : i \in 1 .. Len(triple.predicate)}
  \cup {triple.object.value[i] : i \in 1 .. Len(triple.object.value)}

\* C20: the four term buffers are empty whenever a parse_step begins, also
\* after a parse_step that returned an error part-way through a line, so the
\* terms of every delivered triple hold only bytes of the triple's own line.
C20_BuffersEmptyAtStep ==
  /\ subject_buf = <<>>
  /\ predicate_buf = <<>>
  /\ object_buf = <<>>
  /\ object_annotation_buf = <<>>
  /\ \A i \in 1 .. Len(delivered) :
       TermBytes(delivered[i]) = {LineLetters[LineOf(delivered[i])]}

\* C21: a parse_step that returns Ok when is_end was false has consumed at
\* least one byte, so the call of parse_all returns, with Ok at the end of
\* the input or with the first error.
C21_ParseAllTerminates ==
  /\ [][(~is_end /\ parse_result' = "ok") =>
          read_pos' > read_pos]_parser_vars
  /\ [][parse_all' = "ok" => is_end]_parser_vars
  /\ [][parse_all' = "err" =>
          parse_result # "err" /\ parse_result' = "err"]_parser_vars
  /\ <>(parse_all \in {"ok", "err"})

\* The call of parse_all has read two statement lines and returned Ok at the
\* end of the input
C21_Witness ==
  /\ parse_all = "ok"
  /\ is_end
  /\ Len(delivered) = 2
  /\ parse_result = "ok"

====
